---- MODULE Spec2Model ----
(***************************************************************************)
(* The forecast / generation retrieval layer of quartz-api: the remote     *)
(* service ("data platform") backend, Client in                            *)
(* src/quartz_api/internal/backends/dataplatform/client.py.                *)
(*                                                                         *)
(* A request is one invocation of a Client method.  Every `await` on the   *)
(* dp_client stub is one round trip to the remote service and one step of  *)
(* the request; the code between two awaits runs without interruption.     *)
(* The remote service is the environment: its grants change out of band,   *)
(* its answers are drawn from small fixture sets, and any round trip may   *)
(* fail.                                                                   *)
(***************************************************************************)
EXTENDS Integers, Sequences, FiniteSets, TLC

\* ------------------------------------------------------------------ bounds

\* Longest list of forecast runs the remote service answers with.
MaxRuns == 3

\* Longest timeseries (forecast values, observations) the remote answers with.
MaxValues == 2

\* Longest list of generation values a caller posts.
MaxPosted == 2

\* Most calls of an identity provider followed after startup.
MaxCalls == 2

\* ---------------------------------------------------------------- fixtures

\* Python's None / a present value, for `int | None` and `str | None`.
None == {}

Some(x) == {x}

IsNone(o) == o = {}

ValueOf(o) == CHOOSE x \in o : TRUE

\* dp.EnergySource, dp.LocationType
SOLAR == "SOLAR"

WIND == "WIND"

LocationType_STATE == "STATE"

LocationType_SITE == "SITE"

\* models.ForecastHorizon
ForecastHorizon == {"latest", "horizon", "day_ahead"}

\* Subject identifiers (authdata["sub"]) of the callers.
Users == {"u1", "u2"}

\* The locations the remote service knows, in the order it lists them.
StoreLocations ==
    << [location_uuid |-> "ruvnl", location_type |-> LocationType_STATE, energy_sources |-> {SOLAR, WIND},
        location_name |-> "ruvnl", metadata |-> [f \in {} |-> 0],
        effective_capacity_watts |-> 5000000,
        latlng |-> [latitude |-> 26, longitude |-> 73]],
       [location_uuid |-> "site1", location_type |-> LocationType_SITE, energy_sources |-> {SOLAR},
        location_name |-> "ruvnl_pv_testID1", metadata |-> [orientation |-> 90, tilt |-> 20],
        effective_capacity_watts |-> 10500,
        latlng |-> [latitude |-> 26, longitude |-> 76]],
       [location_uuid |-> "site2", location_type |-> LocationType_SITE, energy_sources |-> {SOLAR},
        location_name |-> "ruvnl_pv_testID2", metadata |-> [f \in {} |-> 0],
        effective_capacity_watts |-> 4000,
        latlng |-> [latitude |-> 27, longitude |-> 77]] >>

Sites == {"site1", "site2"}

\* Location ids a caller may send: the known ones and one the remote does not know.
LocationIds == {"ruvnl", "site1", "testID2"}

SiteIds == Sites \cup {"testID2"}

\* The (identity, site) grants the remote service may hold.
GrantPairs == {<<"u1", "site1">>, <<"u1", "site2">>, <<"u2", "site2">>}

\* Reference times (minutes since the epoch) at which a request reads the clock.
Clock == {3000}

\* forecast_horizon_minutes values a caller may send.
HorizonMinutes == {None, Some(30), Some(600)}

Forecasters == {"fA", "fB", "fC"}

\* Creation timestamps of forecast runs (minutes): T1 < T2 < T3.
CreatedTimes == {2280, 2780, 2870}

\* One forecast value / one observation as the remote service holds it; the
\* fraction of capacity is kept in thousandths.
ForecastValues ==
    { [target_timestamp_utc |-> 2890, effective_capacity_watts |-> 1000,
       fraction_permille |-> 500, created_timestamp_utc |-> 2870],
      [target_timestamp_utc |-> 2905, effective_capacity_watts |-> 2500,
       fraction_permille |-> 800, created_timestamp_utc |-> 2870],
      [target_timestamp_utc |-> 2920, effective_capacity_watts |-> 2500,
       fraction_permille |-> 1000, created_timestamp_utc |-> 2780] }

ObservationValues ==
    { [timestamp_utc |-> 2890, effective_capacity_watts |-> 1000, fraction_permille |-> 500],
      [timestamp_utc |-> 2905, effective_capacity_watts |-> 2500, fraction_permille |-> 800] }

\* All sequences over S of length at most n.
SeqsUpTo(S, n) == UNION { [1..k -> S] : k \in 0..n }

\* ---------------------------------------------------------- pure functions

\* utils.get_window(): the reporting window, the day the reference time falls in.
DayMinutes == 1440

get_window(now) ==
    LET start == (now \div DayMinutes) * DayMinutes
    IN  <<start, start + DayMinutes>>

\* Lines 236-242 without the test for `latest`: an explicit value always counts.
ResolveHorizonMinutes_LatestKeepsMinutes(forecast_horizon, forecast_horizon_minutes) ==
    IF IsNone(forecast_horizon_minutes)
    THEN 0
    ELSE IF forecast_horizon = "day_ahead"
         THEN 9 * 60
         ELSE ValueOf(forecast_horizon_minutes)

\* Lines 236-242 with the day-ahead branch taken for every other horizon too.
ResolveHorizonMinutes_AlwaysDayAhead(forecast_horizon, forecast_horizon_minutes) ==
    IF forecast_horizon = "latest" \/ IsNone(forecast_horizon_minutes)
    THEN 0
    ELSE 9 * 60

\* client.py 236-242: the lookup offset in minutes.
ResolveHorizonMinutes(forecast_horizon, forecast_horizon_minutes) ==
    IF forecast_horizon = "latest" \/ IsNone(forecast_horizon_minutes)
    THEN 0
    ELSE IF forecast_horizon = "day_ahead"
         THEN 9 * 60
         ELSE ValueOf(forecast_horizon_minutes)

\* list.sort(key=created_timestamp_utc, reverse=True): a stable sort, so runs of
\* equal creation time keep the order the response had them in.
RECURSIVE InsertByCreatedDesc(_, _)
InsertByCreatedDesc(f, sorted) ==
    IF sorted = <<>> THEN <<f>>
    ELSE IF Head(sorted).created_timestamp_utc >= f.created_timestamp_utc
         THEN <<Head(sorted)>> \o InsertByCreatedDesc(f, Tail(sorted))
         ELSE <<f>> \o sorted

RECURSIVE SortByCreatedDesc(_)
SortByCreatedDesc(forecasts) ==
    IF forecasts = <<>> THEN <<>>
    ELSE InsertByCreatedDesc(forecasts[Len(forecasts)],
                             SortByCreatedDesc(SubSeq(forecasts, 1, Len(forecasts) - 1)))

\* Lines 255-259 with the sort ascending (reverse=True lost): the oldest run wins.
SelectForecaster_Oldest(forecasts) ==
    SortByCreatedDesc(forecasts)[Len(forecasts)].forecaster

\* client.py 255-259: the forecaster of the most recently created run.
SelectForecaster(forecasts) == SortByCreatedDesc(forecasts)[1].forecaster

\* models.py 96-111: the values of the optional Site fields a caller leaves out.
SiteDefaults ==
    [ client_site_name |-> None, orientation |-> Some(180), tilt |-> Some(35) ]

SiteFields ==
    {"site_uuid", "client_site_name", "orientation", "tilt",
     "latitude", "longitude", "capacity_kw"}

\* models.py 92-128: a field passed to the constructor keeps the value passed,
\* None included; a default fills only a field that is not passed.
Site(kwargs) ==
    [ f \in SiteFields |-> IF f \in DOMAIN kwargs THEN kwargs[f] ELSE SiteDefaults[f] ]

\* client.py 115-127
ToSite(loc) ==
    Site([ site_uuid |-> loc.location_uuid,
           client_site_name |-> Some(loc.location_name),
           orientation |-> IF "orientation" \in DOMAIN loc.metadata
                           THEN Some(loc.metadata["orientation"]) ELSE None,
           tilt |-> IF "tilt" \in DOMAIN loc.metadata
                    THEN Some(loc.metadata["tilt"]) ELSE None,
           capacity_kw |-> loc.effective_capacity_watts \div 1000,
           latitude |-> loc.latlng.latitude,
           longitude |-> loc.latlng.longitude ])

\* The conversion rounding to the nearest kW instead of truncating.
PowerKW_Rounded(effective_capacity_watts, fraction_permille) ==
    (effective_capacity_watts * fraction_permille + 500000) \div 1000000

\* int(effective_capacity_watts * fraction / 1000.0): truncation to whole kW.
PowerKW(effective_capacity_watts, fraction_permille) ==
    (effective_capacity_watts * fraction_permille) \div 1000000

\* Lines 273-280 building the list back to front.
ToPredictedPower_Reversed(values) ==
    [i \in 1..Len(values) |->
        [Time |-> values[Len(values) + 1 - i].target_timestamp_utc,
         PowerKW |-> PowerKW(values[Len(values) + 1 - i].effective_capacity_watts,
                             values[Len(values) + 1 - i].fraction_permille),
         CreatedTime |-> values[Len(values) + 1 - i].created_timestamp_utc]]

\* client.py 273-280
ToPredictedPower(values) ==
    [i \in 1..Len(values) |->
        [Time |-> values[i].target_timestamp_utc,
         PowerKW |-> PowerKW(values[i].effective_capacity_watts, values[i].fraction_permille),
         CreatedTime |-> values[i].created_timestamp_utc]]

\* client.py 206-212
ToActualPower(values) ==
    [i \in 1..Len(values) |->
        [Time |-> values[i].timestamp_utc,
         PowerKW |-> PowerKW(values[i].effective_capacity_watts, values[i].fraction_permille)]]

\* --------------------------------------------------- requests to the remote

RemoteRequest(rpc) ==
    [ rpc |-> rpc, location_uuid |-> None, energy_source |-> None,
      location_type |-> None, user_oauth_id |-> None, pivot_timestamp_utc |-> None,
      horizon_mins |-> None, time_window |-> None, forecaster |-> None ]

\* Lines 291-296 without user_oauth_id_filter: any existing site passes.
AccessRequest_NoUserFilter(location, energy_source, location_type, oauth_id) ==
    [ RemoteRequest("list_locations") EXCEPT
        !.location_uuid = Some(location), !.energy_source = Some(energy_source),
        !.location_type = Some(location_type) ]

\* client.py 291-296
AccessRequest(location, energy_source, location_type, oauth_id) ==
    [ RemoteRequest("list_locations") EXCEPT
        !.location_uuid = Some(location), !.energy_source = Some(energy_source),
        !.location_type = Some(location_type), !.user_oauth_id = Some(oauth_id) ]

\* client.py 90-93, 99-102
RegionsRequest(energy_source) ==
    [ RemoteRequest("list_locations") EXCEPT
        !.energy_source = Some(energy_source), !.location_type = Some(LocationType_STATE) ]

\* The site listing of lines 108-112 without the caller's subject.
SitesRequest_NoUserFilter(sub) ==
    [ RemoteRequest("list_locations") EXCEPT
        !.energy_source = Some(SOLAR), !.location_type = Some(LocationType_SITE) ]

\* client.py 108-112
SitesRequest(sub) ==
    [ RemoteRequest("list_locations") EXCEPT
        !.energy_source = Some(SOLAR), !.location_type = Some(LocationType_SITE),
        !.user_oauth_id = Some(sub) ]

\* client.py 247-251
LatestForecastsRequest(location, energy_source, start, horizon_minutes) ==
    [ RemoteRequest("get_latest_forecasts") EXCEPT
        !.location_uuid = Some(location), !.energy_source = Some(energy_source),
        !.pivot_timestamp_utc = Some(start - horizon_minutes) ]

\* Lines 261-270 with the window moved back by the horizon.
ForecastTimeseriesRequest_ShiftedWindow(location, energy_source, horizon_minutes, window, forecaster) ==
    [ RemoteRequest("get_forecast_as_timeseries") EXCEPT
        !.location_uuid = Some(location), !.energy_source = Some(energy_source),
        !.horizon_mins = Some(horizon_minutes),
        !.time_window = Some(<<window[1] - horizon_minutes, window[2] - horizon_minutes>>),
        !.forecaster = Some(forecaster) ]

\* client.py 261-270
ForecastTimeseriesRequest(location, energy_source, horizon_minutes, window, forecaster) ==
    [ RemoteRequest("get_forecast_as_timeseries") EXCEPT
        !.location_uuid = Some(location), !.energy_source = Some(energy_source),
        !.horizon_mins = Some(horizon_minutes), !.time_window = Some(window),
        !.forecaster = Some(forecaster) ]

\* client.py 196-204
ObservationsRequest(location, energy_source, window) ==
    [ RemoteRequest("get_observations_as_timeseries") EXCEPT
        !.location_uuid = Some(location), !.energy_source = Some(energy_source),
        !.time_window = Some(window) ]

\* ------------------------------------------------------------------- state

\* ------------------------------------------------- relational store fixtures

\* A site row as created out of band: orientation and tilt are left to the defaults.
SiteRow(site_uuid, client_site_name) ==
    Site([ site_uuid |-> site_uuid, client_site_name |-> Some(client_site_name),
           latitude |-> 26, longitude |-> 76, capacity_kw |-> 10 ])

DbInit ==
    [ sites |-> [ site_uuid \in Sites |->
                      SiteRow(site_uuid, IF site_uuid = "site1" THEN "ruvnl_pv_testID1"
                                                               ELSE "ruvnl_pv_testID2") ],
      generation |-> {} ]

\* models.py 54-89: every field is optional and None when not given.
NoProperties ==
    [ client_site_name |-> None, orientation |-> None, tilt |-> None,
      latitude |-> None, longitude |-> None, capacity_kw |-> None ]

\* The update payloads a caller sends; all pass the range validation of models.py 54-89.
SitePropertiesPayloads ==
    { NoProperties,
      [NoProperties EXCEPT !.client_site_name = Some("test_zzz")],
      [NoProperties EXCEPT !.capacity_kw = Some(2000)],
      [NoProperties EXCEPT !.client_site_name = Some("test_zzz"), !.capacity_kw = Some(2000)] }

\* models.py 40-51: the generation values a caller posts.
GenerationValues ==
    { [Time |-> 1, PowerKW |-> 5], [Time |-> 1, PowerKW |-> 1000] }

DbResult(kind, status, detail, site) ==
    [ kind |-> kind, status |-> status, detail |-> detail, site |-> site ]

DbIdle ==
    [ op |-> "idle", site_uuid |-> "", sub |-> "", site_properties |-> NoProperties,
      generation |-> <<>>, before |-> None, result |-> DbResult("none", 0, "", None) ]

\* The export route before a call: no forecast retrieved, no response made.
ExportIdle ==
    [ pc |-> "idle", energy_source |-> "", forecast_horizon |-> "latest",
      forecast |-> None, response |-> None ]

\* The request logger between requests.
AuditIdle ==
    [ pc |-> "idle", backend |-> "", url |-> "", authdata |-> None,
      logged |-> "none", remote_calls |-> <<>>, outcome |-> None, response |-> None ]

\* The process before its modules are imported and run() is called.
ServerIdle ==
    [ pc |-> "import", env_domain |-> None, env_audience |-> None,
      conf_domain |-> "", conf_audience |-> "",
      service_auth |-> "none", get_auth |-> "none", calls |-> <<>> ]

VARIABLES
    reqs,     \* slot -> the request the slot is serving (or idle)
    grants,   \* remote service: the (identity, site) grants it holds now
    served,   \* history: the (identity, site) of the last site retrieval that returned data
    db,       \* relational backend: the site rows and generation rows of its store
    dbreq,    \* relational backend: the last operation called on it and its outcome
    export,   \* CSV export route: the export under way and its response
    audit,    \* request logger: the request being logged and answered
    server    \* the process: its configuration, identity providers and their calls

vars == <<reqs, grants, served, db, dbreq, export, audit, server>>

Slots == {1}

\* A request's local variables: the arguments the method was called with,
\* `resolved_minutes` (forecast_horizon_minutes after lines 236-242 reassign it),
\* `req` (the request to the remote being awaited), `resp` (the last response,
\* as received) and what the method returned or raised.  History kept with it:
\* `calls` (the requests sent so far, in order), `answered` (how many of them
\* got a response) and `had_grant` (whether the remote held the caller's grant
\* to the location when it answered the access check).
Idle ==
    [ op |-> "idle", pc |-> "idle", location |-> "", energy_source |-> "",
      oauth_id |-> None, forecast_horizon |-> "latest",
      forecast_horizon_minutes |-> None, resolved_minutes |-> None,
      now |-> None, window |-> None,
      req |-> RemoteRequest("none"), resp |-> <<>>,
      calls |-> <<>>, answered |-> 0, had_grant |-> None, registered |-> None,
      result |-> [kind |-> "none", body |-> <<>>] ]

Init ==
    /\ reqs = [s \in Slots |-> Idle]
    /\ grants \in SUBSET GrantPairs
    /\ served = None
    /\ db = DbInit
    /\ dbreq = DbIdle
    /\ export = ExportIdle
    /\ audit = AuditIdle
    /\ server = ServerIdle

\* ------------------------------------------------ the remote service's side

StoreLocationIds == { StoreLocations[i].location_uuid : i \in 1..Len(StoreLocations) }

\* The location exists and produces that energy source.
Known(location, energy_source) ==
    \E i \in 1..Len(StoreLocations) :
        /\ StoreLocations[i].location_uuid = location
        /\ energy_source \in StoreLocations[i].energy_sources

\* list_locations: the locations passing every filter the request sets.
ListLocationsResponse(q) ==
    LET Pass(loc) ==
            /\ IsNone(q.location_uuid) \/ loc.location_uuid = ValueOf(q.location_uuid)
            /\ IsNone(q.energy_source) \/ ValueOf(q.energy_source) \in loc.energy_sources
            /\ IsNone(q.location_type) \/ loc.location_type = ValueOf(q.location_type)
            /\ IsNone(q.user_oauth_id)
                   \/ <<ValueOf(q.user_oauth_id), loc.location_uuid>> \in grants
    IN  SelectSeq(StoreLocations, Pass)

\* get_latest_forecasts: the latest run of each forecaster created at or before
\* the pivot, in any order; none for a location the remote does not know.
LatestForecastsResponses(q) ==
    LET Runs == { [forecaster |-> f, created_timestamp_utc |-> c] :
                      f \in Forecasters,
                      c \in { x \in CreatedTimes : x <= ValueOf(q.pivot_timestamp_utc) } }
    IN  IF Known(ValueOf(q.location_uuid), ValueOf(q.energy_source))
        THEN { fs \in SeqsUpTo(Runs, MaxRuns) :
                   \A i, j \in 1..Len(fs) : i # j => fs[i].forecaster # fs[j].forecaster }
        ELSE { <<>> }

\* get_forecast_as_timeseries / get_observations_as_timeseries: the values the
\* remote holds in the window, possibly none.
ForecastTimeseriesResponses(q) == SeqsUpTo(ForecastValues, MaxValues)

ObservationsResponses(q) ==
    IF Known(ValueOf(q.location_uuid), ValueOf(q.energy_source))
    THEN SeqsUpTo(ObservationValues, MaxValues)
    ELSE { <<>> }

\* Grants are given and withdrawn out of band.
GrantAccess ==
    /\ \E g \in GrantPairs \ grants : grants' = grants \cup {g}
    /\ UNCHANGED <<reqs, served, db, dbreq, export, audit, server>>

RevokeAccess ==
    /\ \E g \in grants : grants' = grants \ {g}
    /\ UNCHANGED <<reqs, served, db, dbreq, export, audit, server>>

\* ----------------------------------------------------------- the Client

Ok(body) == [kind |-> "ok", body |-> body]

\* HTTPException(status_code=404)
NotFound == [kind |-> "NotFound", body |-> <<>>]

\* NotImplementedError
Unsupported == [kind |-> "Unsupported", body |-> <<>>]

\* An exception of the dp_client stub, not caught anywhere in the Client.
UpstreamFailure == [kind |-> "UpstreamFailure", body |-> <<>>]

Finish(r, result) == [r EXCEPT !.pc = "done", !.result = result]

\* `await self.dp_client.<rpc>(req)`: the request goes out, the method waits.
Await(r, rpc, req) == [r EXCEPT !.pc = rpc, !.req = req, !.calls = Append(@, req)]

\* client.py 234-251: get_window(), the resolved offset, the list-runs request.
PreparePredicted(r, now) ==
    LET window == get_window(now)
        minutes == ResolveHorizonMinutes(r.forecast_horizon, r.forecast_horizon_minutes)
    IN  Await([r EXCEPT !.now = Some(now), !.window = Some(window),
                        !.resolved_minutes = Some(minutes)],
              "get_latest_forecasts",
              LatestForecastsRequest(r.location, r.energy_source, window[1], minutes))

\* client.py 195-204
PrepareActual(r, now) ==
    LET window == get_window(now)
    IN  Await([r EXCEPT !.now = Some(now), !.window = Some(window)],
              "get_observations_as_timeseries",
              ObservationsRequest(r.location, r.energy_source, window))

\* client.py 226-232 / 187-193: with an identity the access check comes first.
PrepareAccess(r) ==
    Await(r, "check_user_access",
          AccessRequest(r.location, r.energy_source, LocationType_SITE,
                        ValueOf(r.oauth_id)))

\* The access decision remembered from the last retrieval that returned data:
\* the check is skipped for the same identity and site.
StartPredicted_Cached(op, location, energy_source, oauth_id, forecast_horizon, forecast_horizon_minutes, now) ==
    LET r == [Idle EXCEPT !.op = op, !.location = location,
                          !.energy_source = energy_source, !.oauth_id = oauth_id,
                          !.forecast_horizon = forecast_horizon,
                          !.forecast_horizon_minutes = forecast_horizon_minutes]
    IN  IF IsNone(oauth_id) \/ served = Some(<<ValueOf(oauth_id), location>>)
        THEN PreparePredicted(r, now)
        ELSE PrepareAccess(r)

\* _get_predicted_power_production_for_location, up to its first await
StartPredicted(op, location, energy_source, oauth_id, forecast_horizon, forecast_horizon_minutes, now) ==
    LET r == [Idle EXCEPT !.op = op, !.location = location,
                          !.energy_source = energy_source, !.oauth_id = oauth_id,
                          !.forecast_horizon = forecast_horizon,
                          !.forecast_horizon_minutes = forecast_horizon_minutes]
    IN  IF IsNone(oauth_id) THEN PreparePredicted(r, now) ELSE PrepareAccess(r)

\* The region methods handing an identity on, so that the guard runs for them too.
StartActual_Guarded(op, location, energy_source, oauth_id, now) ==
    LET r == [Idle EXCEPT !.op = op, !.location = location,
                          !.energy_source = energy_source,
                          !.oauth_id = IF IsNone(oauth_id) THEN Some("u1") ELSE oauth_id]
    IN  PrepareAccess(r)

\* _get_actual_power_production_for_location, up to its first await
StartActual(op, location, energy_source, oauth_id, now) ==
    LET r == [Idle EXCEPT !.op = op, !.location = location,
                          !.energy_source = energy_source, !.oauth_id = oauth_id]
    IN  IF IsNone(oauth_id) THEN PrepareActual(r, now) ELSE PrepareAccess(r)

PredictedOps ==
    {"get_predicted_solar_power_production_for_location",
     "get_predicted_wind_power_production_for_location", "get_site_forecast"}

ActualOps ==
    {"get_actual_solar_power_production_for_location",
     "get_actual_wind_power_production_for_location", "get_site_generation"}

RegionOps ==
    {"get_predicted_solar_power_production_for_location",
     "get_predicted_wind_power_production_for_location",
     "get_actual_solar_power_production_for_location",
     "get_actual_wind_power_production_for_location",
     "get_solar_regions", "get_wind_regions"}

SiteRetrievalOps == {"get_site_forecast", "get_site_generation"}

SiteWriteOps == {"put_site", "post_site_generation"}

get_predicted_solar_power_production_for_location(s) ==
    /\ reqs[s].pc = "idle"
    /\ \E location \in LocationIds, forecast_horizon \in ForecastHorizon,
          forecast_horizon_minutes \in HorizonMinutes, now \in Clock :
          reqs' = [reqs EXCEPT ![s] =
              StartPredicted("get_predicted_solar_power_production_for_location",
                             location, SOLAR, None, forecast_horizon,
                             forecast_horizon_minutes, now)]
    /\ UNCHANGED <<grants, served, db, dbreq, export, audit, server>>

get_predicted_wind_power_production_for_location(s) ==
    /\ reqs[s].pc = "idle"
    /\ \E location \in LocationIds, forecast_horizon \in ForecastHorizon,
          forecast_horizon_minutes \in HorizonMinutes, now \in Clock :
          reqs' = [reqs EXCEPT ![s] =
              StartPredicted("get_predicted_wind_power_production_for_location",
                             location, WIND, None, forecast_horizon,
                             forecast_horizon_minutes, now)]
    /\ UNCHANGED <<grants, served, db, dbreq, export, audit, server>>

get_actual_solar_power_production_for_location(s) ==
    /\ reqs[s].pc = "idle"
    /\ \E location \in LocationIds, now \in Clock :
          reqs' = [reqs EXCEPT ![s] =
              StartActual("get_actual_solar_power_production_for_location",
                          location, SOLAR, None, now)]
    /\ UNCHANGED <<grants, served, db, dbreq, export, audit, server>>

get_actual_wind_power_production_for_location(s) ==
    /\ reqs[s].pc = "idle"
    /\ \E location \in LocationIds, now \in Clock :
          reqs' = [reqs EXCEPT ![s] =
              StartActual("get_actual_wind_power_production_for_location",
                          location, WIND, None, now)]
    /\ UNCHANGED <<grants, served, db, dbreq, export, audit, server>>

\* client.py 88-104
get_regions(s, op, energy_source) ==
    /\ reqs[s].pc = "idle"
    /\ reqs' = [reqs EXCEPT ![s] =
           Await([Idle EXCEPT !.op = op, !.energy_source = energy_source],
                 "list_locations", RegionsRequest(energy_source))]
    /\ UNCHANGED <<grants, served, db, dbreq, export, audit, server>>

get_wind_regions(s) == get_regions(s, "get_wind_regions", WIND)

get_solar_regions(s) == get_regions(s, "get_solar_regions", SOLAR)

\* client.py 106-113
get_sites(s) ==
    /\ reqs[s].pc = "idle"
    /\ \E sub \in Users :
          reqs' = [reqs EXCEPT ![s] =
              Await([Idle EXCEPT !.op = "get_sites", !.energy_source = SOLAR,
                                 !.oauth_id = Some(sub)],
                    "list_locations", SitesRequest(sub))]
    /\ UNCHANGED <<grants, served, db, dbreq, export, audit, server>>

\* client.py 140-151: forecast_horizon and forecast_horizon_minutes keep their defaults.
get_site_forecast(s) ==
    /\ reqs[s].pc = "idle"
    /\ \E site_uuid \in SiteIds, sub \in Users, now \in Clock :
          reqs' = [reqs EXCEPT ![s] =
              StartPredicted("get_site_forecast", site_uuid, SOLAR, Some(sub),
                             "latest", None, now)]
    /\ UNCHANGED <<grants, served, db, dbreq, export, audit, server>>

\* client.py 153-164
get_site_generation(s) ==
    /\ reqs[s].pc = "idle"
    /\ \E site_uuid \in SiteIds, sub \in Users, now \in Clock :
          reqs' = [reqs EXCEPT ![s] =
              StartActual("get_site_generation", site_uuid, SOLAR, Some(sub), now)]
    /\ UNCHANGED <<grants, served, db, dbreq, export, audit, server>>

\* The write methods running the access check before they raise.
RaiseUnsupported_AfterAccessCheck(op, site_uuid, sub) ==
    PrepareAccess([Idle EXCEPT !.op = op, !.location = site_uuid,
                               !.energy_source = SOLAR, !.oauth_id = Some(sub)])

\* client.py 131-138 and 166-173: raise before anything else.
RaiseUnsupported(op, site_uuid, sub) ==
    Finish([Idle EXCEPT !.op = op, !.location = site_uuid, !.oauth_id = Some(sub)],
           Unsupported)

put_site(s) ==
    /\ reqs[s].pc = "idle"
    /\ \E site_uuid \in SiteIds, sub \in Users :
          reqs' = [reqs EXCEPT ![s] = RaiseUnsupported("put_site", site_uuid, sub)]
    /\ UNCHANGED <<grants, served, db, dbreq, export, audit, server>>

post_site_generation(s) ==
    /\ reqs[s].pc = "idle"
    /\ \E site_uuid \in SiteIds, sub \in Users :
          reqs' = [reqs EXCEPT ![s] =
              RaiseUnsupported("post_site_generation", site_uuid, sub)]
    /\ UNCHANGED <<grants, served, db, dbreq, export, audit, server>>

\* The response to the awaited request has arrived.
Received(r, resp) == [r EXCEPT !.resp = resp, !.answered = @ + 1]

\* client.py 297-303, then the caller goes on (lines 234 / 195).
AfterAccess(r, now) ==
    IF Len(r.resp) = 0
    THEN Finish(r, NotFound)
    ELSE IF r.op \in PredictedOps THEN PreparePredicted(r, now) ELSE PrepareActual(r, now)

\* client.py 283-303: _check_user_access
check_user_access(s) ==
    /\ reqs[s].pc = "check_user_access"
    /\ \E now \in Clock :
          LET r == [reqs[s] EXCEPT !.had_grant =
                       Some(<<ValueOf(reqs[s].oauth_id), reqs[s].location>> \in grants)]
          IN  reqs' = [reqs EXCEPT ![s] =
                  AfterAccess(Received(r, ListLocationsResponse(r.req)), now)]
    /\ UNCHANGED <<grants, served, db, dbreq, export, audit, server>>

\* Lines 253-254 raising 404 for a location without runs.
AfterLatestForecasts_RaisesOnEmpty(r) ==
    IF Len(r.resp) = 0
    THEN Finish(r, NotFound)
    ELSE Await(r, "get_forecast_as_timeseries",
               ForecastTimeseriesRequest(
                   r.location, r.energy_source, ValueOf(r.resolved_minutes),
                   ValueOf(r.window), SelectForecaster(r.resp)))

\* Lines 253-270 without the early return: with no runs the fetch goes out for
\* a fixed forecaster.
AfterLatestForecasts_FetchesWithoutRuns(r) ==
    Await(r, "get_forecast_as_timeseries",
          ForecastTimeseriesRequest(
              r.location, r.energy_source, ValueOf(r.resolved_minutes), ValueOf(r.window),
              IF Len(r.resp) = 0 THEN "fA" ELSE SelectForecaster(r.resp)))

\* client.py 253-270: no runs, no forecast; otherwise fetch the values of the
\* forecaster that made the most recent run.
AfterLatestForecasts(r) ==
    IF Len(r.resp) = 0
    THEN Finish(r, Ok(<<>>))
    ELSE Await(r, "get_forecast_as_timeseries",
               ForecastTimeseriesRequest(
                   r.location, r.energy_source, ValueOf(r.resolved_minutes),
                   ValueOf(r.window), SelectForecaster(r.resp)))

\* client.py 252
get_latest_forecasts(s) ==
    /\ reqs[s].pc = "get_latest_forecasts"
    /\ \E forecasts \in LatestForecastsResponses(reqs[s].req) :
          reqs' = [reqs EXCEPT ![s] = AfterLatestForecasts(Received(reqs[s], forecasts))]
    /\ UNCHANGED <<grants, served, db, dbreq, export, audit, server>>

\* client.py 271-281
get_forecast_as_timeseries(s) ==
    /\ reqs[s].pc = "get_forecast_as_timeseries"
    /\ \E values \in ForecastTimeseriesResponses(reqs[s].req) :
          reqs' = [reqs EXCEPT ![s] =
              Finish(Received(reqs[s], values), Ok(ToPredictedPower(values)))]
    /\ UNCHANGED <<grants, served, db, dbreq, export, audit, server>>

\* client.py 205-214
get_observations_as_timeseries(s) ==
    /\ reqs[s].pc = "get_observations_as_timeseries"
    /\ \E values \in ObservationsResponses(reqs[s].req) :
          reqs' = [reqs EXCEPT ![s] =
              Finish(Received(reqs[s], values), Ok(ToActualPower(values)))]
    /\ UNCHANGED <<grants, served, db, dbreq, export, audit, server>>

\* client.py 94-95 and 103-104
list_locations(s) ==
    /\ reqs[s].pc = "list_locations"
    /\ reqs[s].op \in RegionOps
    /\ LET locations == ListLocationsResponse(reqs[s].req)
       IN  reqs' = [reqs EXCEPT ![s] =
               Finish(Received(reqs[s], locations),
                      Ok([i \in 1..Len(locations) |-> locations[i].location_uuid]))]
    /\ UNCHANGED <<grants, served, db, dbreq, export, audit, server>>

\* client.py 113-129; registered records the sites the remote holds for the
\* caller when it answers.
list_sites(s) ==
    /\ reqs[s].pc = "list_locations"
    /\ reqs[s].op = "get_sites"
    /\ LET locations == ListLocationsResponse(reqs[s].req)
           sub == ValueOf(reqs[s].oauth_id)
       IN  reqs' = [reqs EXCEPT ![s] =
               Finish([Received(reqs[s], locations) EXCEPT
                           !.registered = Some({site \in Sites : <<sub, site>> \in grants})],
                      Ok([i \in 1..Len(locations) |-> ToSite(locations[i])]))]
    /\ UNCHANGED <<grants, served, db, dbreq, export, audit, server>>

Awaiting ==
    {"check_user_access", "get_latest_forecasts", "get_forecast_as_timeseries",
     "get_observations_as_timeseries", "list_locations"}

\* A failed call issued a second time instead of raising.
RemoteFailure_Retries(s) ==
    /\ reqs[s].pc \in Awaiting
    /\ reqs' = [reqs EXCEPT ![s] = Await(reqs[s], reqs[s].pc, reqs[s].req)]
    /\ UNCHANGED <<grants, served, db, dbreq, export, audit, server>>

\* The awaited call fails or times out: the exception leaves the method.
RemoteFailure(s) ==
    /\ reqs[s].pc \in Awaiting
    /\ reqs' = [reqs EXCEPT ![s] = Finish(reqs[s], UpstreamFailure)]
    /\ UNCHANGED <<grants, served, db, dbreq, export, audit, server>>

\* The caller has the result; the slot is free for the next request.
Return(s) ==
    /\ reqs[s].pc = "done"
    /\ reqs' = [reqs EXCEPT ![s] = Idle]
    /\ served' = IF reqs[s].op \in SiteRetrievalOps /\ reqs[s].result.kind = "ok"
                 THEN Some(<<ValueOf(reqs[s].oauth_id), reqs[s].location>>)
                 ELSE served
    /\ UNCHANGED <<grants, db, dbreq, export, audit, server>>

Next ==
    \/ \E s \in Slots :
          \/ get_predicted_solar_power_production_for_location(s)
          \/ get_predicted_wind_power_production_for_location(s)
          \/ get_actual_solar_power_production_for_location(s)
          \/ get_actual_wind_power_production_for_location(s)
          \/ get_wind_regions(s)
          \/ get_solar_regions(s)
          \/ get_sites(s)
          \/ list_sites(s)
          \/ get_site_forecast(s)
          \/ get_site_generation(s)
          \/ put_site(s)
          \/ post_site_generation(s)
          \/ check_user_access(s)
          \/ get_latest_forecasts(s)
          \/ get_forecast_as_timeseries(s)
          \/ get_observations_as_timeseries(s)
          \/ list_locations(s)
          \/ RemoteFailure(s)
          \/ Return(s)
    \/ GrantAccess
    \/ RevokeAccess

Spec == Init /\ [][Next]_vars

\* ---------------------------------------------------- relational backend

\* The Access Guard over the store's own grants.
QuartzDB_HasAccess(sub, site_uuid) ==
    site_uuid \in DOMAIN db.sites /\ <<sub, site_uuid>> \in grants

QuartzDB_NotFound == DbResult("NotFound", 404, "not found", None)

QuartzDB_CapacityExceeded == DbResult("CapacityExceeded", 422, "generation values", None)

QuartzDB_Ok(site) == DbResult("ok", 200, "", site)

OptionalSiteFields == {"client_site_name", "orientation", "tilt"}

\* An update that rebuilds the row from its creation values and the payload.
UpdateRow_ResetsAbsent(row, site_properties) ==
    [ f \in DOMAIN row |->
        IF f \in DOMAIN site_properties /\ ~IsNone(site_properties[f])
        THEN IF f \in OptionalSiteFields THEN site_properties[f]
                                         ELSE ValueOf(site_properties[f])
        ELSE DbInit.sites[row.site_uuid][f] ]

\* The row after an update: a field present in the payload takes the payload's
\* value, every other field keeps the row's.
UpdateRow(row, site_properties) ==
    [ f \in DOMAIN row |->
        IF f \in DOMAIN site_properties /\ ~IsNone(site_properties[f])
        THEN IF f \in OptionalSiteFields THEN site_properties[f]
                                         ELSE ValueOf(site_properties[f])
        ELSE row[f] ]

DbCall(op, site_uuid, sub) ==
    [DbIdle EXCEPT !.op = op, !.site_uuid = site_uuid, !.sub = sub]

QuartzDB_put_site ==
    \E site_uuid \in SiteIds, sub \in Users, site_properties \in SitePropertiesPayloads :
        LET call == [DbCall("put_site", site_uuid, sub) EXCEPT
                         !.site_properties = site_properties]
        IN  /\ IF ~QuartzDB_HasAccess(sub, site_uuid)
               THEN /\ dbreq' = [call EXCEPT !.result = QuartzDB_NotFound]
                    /\ db' = db
               ELSE LET row == UpdateRow(db.sites[site_uuid], site_properties)
                    IN  /\ db' = [db EXCEPT !.sites[site_uuid] = row]
                        /\ dbreq' = [call EXCEPT !.before = Some(db.sites[site_uuid]),
                                                 !.result = QuartzDB_Ok(Some(row))]
            /\ UNCHANGED <<reqs, grants, served, export, audit, server>>

\* A capacity check that looks at the first posted value only.
ExceedsCapacity_FirstValueOnly(generation, capacity_kw) ==
    Len(generation) > 0 /\ generation[1].PowerKW > capacity_kw

\* Some posted value is above the site's registered capacity.
ExceedsCapacity(generation, capacity_kw) ==
    \E i \in 1..Len(generation) : generation[i].PowerKW > capacity_kw

QuartzDB_post_site_generation ==
    \E site_uuid \in SiteIds, sub \in Users, generation \in SeqsUpTo(GenerationValues, MaxPosted) :
        LET call == [DbCall("post_site_generation", site_uuid, sub) EXCEPT
                         !.generation = generation]
        IN  /\ IF ~QuartzDB_HasAccess(sub, site_uuid)
               THEN /\ dbreq' = [call EXCEPT !.result = QuartzDB_NotFound]
                    /\ db' = db
               ELSE IF ExceedsCapacity(generation, db.sites[site_uuid].capacity_kw)
               THEN /\ dbreq' = [call EXCEPT !.result = QuartzDB_CapacityExceeded]
                    /\ db' = db
               ELSE /\ dbreq' = [call EXCEPT !.result = QuartzDB_Ok(None)]
                    /\ db' = [db EXCEPT !.generation =
                                  @ \cup { <<site_uuid, generation[i]>> : i \in 1..Len(generation) }]
            /\ UNCHANGED <<reqs, grants, served, export, audit, server>>

NextRelational ==
    \/ QuartzDB_put_site
    \/ QuartzDB_post_site_generation

\* The store with every grant of the fixture in place.
InitRelational ==
    /\ reqs = [s \in Slots |-> Idle]
    /\ grants = GrantPairs
    /\ served = None
    /\ db = DbInit
    /\ dbreq = DbIdle
    /\ export = ExportIdle
    /\ audit = AuditIdle
    /\ server = ServerIdle

SpecRelational == InitRelational /\ [][NextRelational]_vars

\* ------------------------------------------------------------- CSV export

\* The PredictedPower values a forecast retrieval may hand to the export.
ExportValues == { ToPredictedPower(<<v>>)[1] : v \in ForecastValues }

CsvHeader == <<"Date [IST]", "Time", "PowerMW">>

\* IST is UTC+5:30.
IstOffsetMinutes == 330

\* One line of the table: local date (day number), local time (minute of the
\* day) and the power in MW, kept in thousandths of a MW (kW / 1000).
CsvRow(p) ==
    [ date |-> (p.Time + IstOffsetMinutes) \div DayMinutes,
      time |-> (p.Time + IstOffsetMinutes) % DayMinutes,
      PowerMW_thousandths |-> p.PowerKW ]

ToCsv(forecast) ==
    [ header |-> CsvHeader, rows |-> [i \in 1..Len(forecast) |-> CsvRow(forecast[i])] ]

\* An export that answers an empty forecast with not-found.
CsvResponse_EmptyIsNotFound(forecast) ==
    IF Len(forecast) = 0
    THEN [ status |-> 404, content_type |-> "application/json", body |-> ToCsv(<<>>) ]
    ELSE [ status |-> 200, content_type |-> "text/csv", body |-> ToCsv(forecast) ]

CsvResponse(forecast) ==
    [ status |-> 200, content_type |-> "text/csv", body |-> ToCsv(forecast) ]

\* A failure of the forecast retrieval, mapped to its status code.
CsvError == [ status |-> 500, content_type |-> "application/json", body |-> ToCsv(<<>>) ]

\* GET /{source}/{region}/forecast/csv?forecast_horizon=...
forecast_csv ==
    /\ export.pc = "idle"
    /\ \E energy_source \in {SOLAR, WIND}, forecast_horizon \in ForecastHorizon :
          export' = [ExportIdle EXCEPT !.pc = "get_predicted_power",
                                       !.energy_source = energy_source,
                                       !.forecast_horizon = forecast_horizon]
    /\ UNCHANGED <<reqs, grants, served, db, dbreq, audit, server>>

\* The backend returns the forecast of the window, possibly no value at all.
ForecastRetrieved ==
    /\ export.pc = "get_predicted_power"
    /\ \E forecast \in SeqsUpTo(ExportValues, MaxValues) :
          export' = [export EXCEPT !.pc = "render", !.forecast = Some(forecast)]
    /\ UNCHANGED <<reqs, grants, served, db, dbreq, audit, server>>

\* The backend raises instead of returning.
ForecastFailed ==
    /\ export.pc = "get_predicted_power"
    /\ export' = [export EXCEPT !.pc = "done", !.response = Some(CsvError)]
    /\ UNCHANGED <<reqs, grants, served, db, dbreq, audit, server>>

RenderCsv ==
    /\ export.pc = "render"
    /\ export' = [export EXCEPT !.pc = "done",
                                !.response = Some(CsvResponse(ValueOf(export.forecast)))]
    /\ UNCHANGED <<reqs, grants, served, db, dbreq, audit, server>>

ExportReturn ==
    /\ export.pc = "done"
    /\ export' = ExportIdle
    /\ UNCHANGED <<reqs, grants, served, db, dbreq, audit, server>>

NextExport ==
    \/ forecast_csv
    \/ ForecastRetrieved
    \/ ForecastFailed
    \/ RenderCsv
    \/ ExportReturn

SpecExport == InitRelational /\ [][NextExport]_vars

\* --------------------------------------------------------- request logger

\* The backends whose record_call the logger may be given.
AuditBackends == {"dataplatform", "quartzdb"}

AuditUrls == {"/sites", "/solar/ruvnl/forecast"}

\* What the route handler of a request returns or raises.
Outcomes == {Ok(<<>>), NotFound, Unsupported, UpstreamFailure}

\* A record_call of the data platform client that raises.
save_api_call_to_db_Raises(a) == [a EXCEPT !.logged = "raised"]

\* client.py 175-178: a warning in the local log, nothing else; no request
\* goes to the remote service and the method returns.
save_api_call_to_db(a) == [a EXCEPT !.logged = "warning"]

\* The logger goes on to the route handler whatever record_call did.
AfterRecordCall(a) == [a EXCEPT !.pc = "call_next"]

\* A request reaches the logger; outcome is what its handler will answer.
dispatch ==
    /\ audit.pc = "idle"
    /\ \E backend \in AuditBackends, url \in AuditUrls,
          authdata \in {None} \cup {Some(u) : u \in Users}, outcome \in Outcomes :
          audit' = [AuditIdle EXCEPT !.pc = "record_call", !.backend = backend,
                                     !.url = url, !.authdata = authdata,
                                     !.outcome = Some(outcome)]
    /\ UNCHANGED <<reqs, grants, served, db, dbreq, export, server>>

DataPlatform_save_api_call_to_db ==
    /\ audit.pc = "record_call"
    /\ audit.backend = "dataplatform"
    /\ audit' = AfterRecordCall(save_api_call_to_db(audit))
    /\ UNCHANGED <<reqs, grants, served, db, dbreq, export, server>>

\* The relational backend writes the audit row.
QuartzDB_save_api_call_to_db ==
    /\ audit.pc = "record_call"
    /\ audit.backend = "quartzdb"
    /\ audit' = AfterRecordCall([audit EXCEPT !.logged = "written"])
    /\ UNCHANGED <<reqs, grants, served, db, dbreq, export, server>>

\* The relational backend fails to write the audit row.
QuartzDB_save_api_call_to_db_fails ==
    /\ audit.pc = "record_call"
    /\ audit.backend = "quartzdb"
    /\ audit' = AfterRecordCall([audit EXCEPT !.logged = "failed"])
    /\ UNCHANGED <<reqs, grants, served, db, dbreq, export, server>>

\* The route handler answers; its answer is the response.
call_next ==
    /\ audit.pc = "call_next"
    /\ audit' = [audit EXCEPT !.pc = "done", !.response = audit.outcome]
    /\ UNCHANGED <<reqs, grants, served, db, dbreq, export, server>>

AuditReturn ==
    /\ audit.pc = "done"
    /\ audit' = AuditIdle
    /\ UNCHANGED <<reqs, grants, served, db, dbreq, export, server>>

NextAudit ==
    \/ dispatch
    \/ DataPlatform_save_api_call_to_db
    \/ QuartzDB_save_api_call_to_db
    \/ QuartzDB_save_api_call_to_db_fails
    \/ call_next
    \/ AuditReturn

SpecAudit == InitRelational /\ [][NextAudit]_vars

\* ---------------------------------------------------- concurrent requests

\* Two requests are in flight on the one Client at a time.
ConcurrentSlots == {1, 2}

ForecastValueAt(target) ==
    CHOOSE v \in ForecastValues : v.target_timestamp_utc = target

\* A store that does not change while the requests run: the runs it holds for
\* each location, oldest first.
StoredRuns(location) ==
    IF location = "site1"
    THEN << [forecaster |-> "fA", created_timestamp_utc |-> 2780],
            [forecaster |-> "fB", created_timestamp_utc |-> 2870] >>
    ELSE IF location = "site2"
    THEN << [forecaster |-> "fC", created_timestamp_utc |-> 2280] >>
    ELSE <<>>

\* The store's answer to get_latest_forecasts: its runs created at or before the pivot.
StoreRuns(q) ==
    LET AtOrBefore(run) == run.created_timestamp_utc <= ValueOf(q.pivot_timestamp_utc)
    IN  SelectSeq(StoredRuns(ValueOf(q.location_uuid)), AtOrBefore)

\* The store's answer to get_forecast_as_timeseries: the values it holds for
\* the location and forecaster named.
StoreValues(q) ==
    IF q.location_uuid = Some("site1") /\ q.forecaster = Some("fB")
    THEN << ForecastValueAt(2890), ForecastValueAt(2905) >>
    ELSE IF q.location_uuid = Some("site2") /\ q.forecaster = Some("fC")
    THEN << ForecastValueAt(2920) >>
    ELSE <<>>

\* The store's answer to get_observations_as_timeseries.
StoreObservations(q) ==
    IF q.location_uuid = Some("site1")
    THEN << CHOOSE v \in ObservationValues : v.timestamp_utc = 2905 >>
    ELSE <<>>

\* client.py 252-270, the remote answering from the store
store_get_latest_forecasts(s) ==
    /\ reqs[s].pc = "get_latest_forecasts"
    /\ reqs' = [reqs EXCEPT ![s] =
           AfterLatestForecasts(Received(reqs[s], StoreRuns(reqs[s].req)))]
    /\ UNCHANGED <<grants, served, db, dbreq, export, audit, server>>

\* A Client that keeps the request it last built in a field of its own: the
\* answer taken is the one to the fetch any request in flight has built.
store_get_forecast_as_timeseries_SharedRequest(s) ==
    /\ reqs[s].pc = "get_forecast_as_timeseries"
    /\ \E o \in ConcurrentSlots :
          /\ reqs[o].pc = "get_forecast_as_timeseries"
          /\ LET values == StoreValues(reqs[o].req)
             IN  reqs' = [reqs EXCEPT ![s] =
                     Finish(Received(reqs[s], values), Ok(ToPredictedPower(values)))]
    /\ UNCHANGED <<grants, served, db, dbreq, export, audit, server>>

\* client.py 271-281, the remote answering from the store
store_get_forecast_as_timeseries(s) ==
    /\ reqs[s].pc = "get_forecast_as_timeseries"
    /\ LET values == StoreValues(reqs[s].req)
       IN  reqs' = [reqs EXCEPT ![s] =
               Finish(Received(reqs[s], values), Ok(ToPredictedPower(values)))]
    /\ UNCHANGED <<grants, served, db, dbreq, export, audit, server>>

\* client.py 205-214, the remote answering from the store
store_get_observations_as_timeseries(s) ==
    /\ reqs[s].pc = "get_observations_as_timeseries"
    /\ LET values == StoreObservations(reqs[s].req)
       IN  reqs' = [reqs EXCEPT ![s] =
               Finish(Received(reqs[s], values), Ok(ToActualPower(values)))]
    /\ UNCHANGED <<grants, served, db, dbreq, export, audit, server>>

NextConcurrent ==
    \E s \in ConcurrentSlots :
        \/ get_site_forecast(s)
        \/ get_site_generation(s)
        \/ get_sites(s)
        \/ check_user_access(s)
        \/ list_sites(s)
        \/ store_get_latest_forecasts(s)
        \/ store_get_forecast_as_timeseries(s)
        \/ store_get_observations_as_timeseries(s)
        \/ RemoteFailure(s)
        \/ Return(s)

InitConcurrent ==
    /\ reqs = [s \in ConcurrentSlots |-> Idle]
    /\ grants = GrantPairs
    /\ served = None
    /\ db = DbInit
    /\ dbreq = DbIdle
    /\ export = ExportIdle
    /\ audit = AuditIdle
    /\ server = ServerIdle

SpecConcurrent == InitConcurrent /\ [][NextConcurrent]_vars

\* ------------------------------------------------------ identity providers

\* What an environment variable may hold: unset, set to nothing, set to a value.
EnvValues == {None, Some(""), Some("configured")}

\* What conf.get_string gives for auth0.domain and auth0.audience.
ConfValues == {"", "configured"}

\* What a request may carry as its bearer credential.
Credentials == {None, Some("valid"), Some("invalid")}

\* auth.py 73-82: the provider the module creates when it is imported.
ServiceAuth(domain, api_audience) ==
    IF IsNone(domain) \/ IsNone(api_audience) THEN "DummyAuth" ELSE "Auth"

\* main.py 137-148: the provider run() installs for get_auth.
InstallAuth(domain, audience) ==
    IF audience = "" \/ domain = "" THEN "DummyAuth" ELSE "Auth0"

\* auth.py 64-70
DummyAuth_call ==
    [ kind |-> "ok",
      email |-> "test@test.com", sub |-> "google-oath2|012345678909876543210" ]

\* auth.py 26-53: the payload of a token that verifies, 401 otherwise; a request
\* without a credential does not get past the bearer scheme.
Auth_call(credential) ==
    IF credential = Some("valid")
    THEN [ kind |-> "ok", email |-> "u1@example.com", sub |-> "u1" ]
    ELSE [ kind |-> "Unauthorized", email |-> "", sub |-> "" ]

\* auth.py 73-82, at import
import_service_auth ==
    /\ server.pc = "import"
    /\ \E domain \in EnvValues, api_audience \in EnvValues :
          server' = [server EXCEPT !.pc = "run", !.env_domain = domain,
                                   !.env_audience = api_audience,
                                   !.service_auth = ServiceAuth(domain, api_audience)]
    /\ UNCHANGED <<reqs, grants, served, db, dbreq, export, audit>>

\* main.py 136-148
run ==
    /\ server.pc = "run"
    /\ \E domain \in ConfValues, audience \in ConfValues :
          server' = [server EXCEPT !.pc = "serving", !.conf_domain = domain,
                                   !.conf_audience = audience,
                                   !.get_auth = InstallAuth(domain, audience)]
    /\ UNCHANGED <<reqs, grants, served, db, dbreq, export, audit>>

\* A request is authenticated by one of the two providers.
authenticate ==
    /\ server.pc = "serving"
    /\ Len(server.calls) < MaxCalls
    /\ \E provider \in {server.get_auth, server.service_auth}, credential \in Credentials :
          server' = [server EXCEPT !.calls = Append(@,
              [ provider |-> provider, credential |-> credential,
                payload |-> IF provider = "DummyAuth" THEN DummyAuth_call
                                                      ELSE Auth_call(credential) ])]
    /\ UNCHANGED <<reqs, grants, served, db, dbreq, export, audit>>

NextStartup ==
    \/ import_service_auth
    \/ run
    \/ authenticate

SpecStartup == InitRelational /\ [][NextStartup]_vars

\* ------------------------------------------------------------------ claims

Requests == { reqs[s] : s \in Slots }

CallsOf(r, rpc) == { i \in 1..Len(r.calls) : r.calls[i].rpc = rpc }

DataRpcs ==
    {"get_latest_forecasts", "get_forecast_as_timeseries", "get_observations_as_timeseries"}

\* The request's last call has been answered (and not failed).
LastAnswered(r, rpc) ==
    /\ r.calls # <<>>
    /\ r.calls[Len(r.calls)].rpc = rpc
    /\ r.answered = Len(r.calls)

\* The pivot of every list-runs call is window start - offset and every fetch of
\* values carries offset as its horizon.
UsesOffset(r, offset) ==
    /\ \A i \in CallsOf(r, "get_latest_forecasts") :
          r.calls[i].pivot_timestamp_utc = Some(ValueOf(r.window)[1] - offset)
    /\ \A i \in CallsOf(r, "get_forecast_as_timeseries") :
          r.calls[i].horizon_mins = Some(offset)

\* C1: a forecast request with horizon day_ahead, whatever horizon_minutes is
\* (missing included), selects its run with pivot start - 540 and fetches with
\* horizon 540.
C1_DayAheadOffset540 ==
    \A r \in Requests :
        (r.op \in PredictedOps /\ r.forecast_horizon = "day_ahead") => UsesOffset(r, 540)

C3_ExplicitHorizonOffsetN ==
    \A r \in Requests :
        (r.op \in PredictedOps /\ r.forecast_horizon = "horizon"
            /\ ~IsNone(r.forecast_horizon_minutes))
        => UsesOffset(r, ValueOf(r.forecast_horizon_minutes))

C3_Witness ==
    \E r \in Requests :
        /\ r.forecast_horizon = "horizon"
        /\ r.forecast_horizon_minutes = Some(30)
        /\ CallsOf(r, "get_forecast_as_timeseries") # {}

\* C4: in get_site_forecast and get_site_generation the first request sent is the
\* access check for (site, identity); a forecast or observation request is sent
\* only after that check was answered with the grant present; and when the remote
\* held no grant at the check, the method raises NotFound having sent nothing
\* else and returning no value.
C4_AccessCheckedBeforeData ==
    \A r \in Requests :
        r.op \in SiteRetrievalOps =>
            /\ r.calls[1] = AccessRequest(r.location, SOLAR, LocationType_SITE,
                                          ValueOf(r.oauth_id))
            /\ (\E i \in 1..Len(r.calls) : r.calls[i].rpc \in DataRpcs)
                   => r.had_grant = Some(TRUE)
            /\ r.had_grant = Some(FALSE)
                   => /\ r.pc = "done"
                      /\ r.result = NotFound
                      /\ Len(r.calls) = 1

\* The caller holds a grant to another site and none to the site asked for.
C4_Witness ==
    \E r \in Requests :
        /\ r.op = "get_site_forecast"
        /\ r.location = "site1"
        /\ r.had_grant = Some(FALSE)
        /\ <<ValueOf(r.oauth_id), "site2">> \in grants
        /\ r.result = NotFound

\* C5: no access decision is carried from one retrieval to the next: a site
\* retrieval that returns data has itself asked the remote, and the remote held
\* the grant at that moment; one that found the grant gone raises NotFound, also
\* when the previous retrieval of the same identity and site returned data.
C5_AccessNotCached ==
    \A r \in Requests :
        (r.op \in SiteRetrievalOps /\ r.pc = "done") =>
            /\ r.result.kind = "ok" =>
                  /\ r.calls[1].rpc = "list_locations"
                  /\ r.calls[1].user_oauth_id = r.oauth_id
                  /\ r.had_grant = Some(TRUE)
            /\ r.had_grant = Some(FALSE) => r.result = NotFound

C5_Witness ==
    \E r \in Requests :
        /\ r.op \in SiteRetrievalOps
        /\ r.pc = "done"
        /\ served = Some(<<ValueOf(r.oauth_id), r.location>>)
        /\ r.had_grant = Some(FALSE)
        /\ r.result = NotFound

\* C6: a region-scoped operation sends no request filtered by an identity, never
\* runs the access check and never raises NotFound, whatever grants exist; the
\* region lists are the state locations of the energy source.
C6_RegionOpsUnguarded ==
    \A r \in Requests :
        r.op \in RegionOps =>
            /\ IsNone(r.oauth_id)
            /\ r.had_grant = None
            /\ \A i \in 1..Len(r.calls) : IsNone(r.calls[i].user_oauth_id)
            /\ r.result.kind # "NotFound"
            /\ (r.op \in {"get_wind_regions", "get_solar_regions"} /\ r.result.kind = "ok")
                   => r.result.body = <<"ruvnl">>

\* Region data is returned while nobody holds any grant.
C6_Witness ==
    \E r \in Requests :
        /\ r.op \in RegionOps
        /\ grants = {}
        /\ r.result.kind = "ok"
        /\ r.result.body # <<>>

\* C7: put_site and post_site_generation raise Unsupported for every site and
\* identity, having sent nothing to the remote service.
C7_WritesUnsupported ==
    \A r \in Requests :
        r.op \in SiteWriteOps =>
            /\ r.pc = "done"
            /\ r.result = Unsupported
            /\ r.calls = <<>>
            /\ r.had_grant = None

\* The caller holds a grant to the site it tries to write.
C7_Witness ==
    \E r \in Requests :
        /\ r.op = "put_site"
        /\ <<ValueOf(r.oauth_id), r.location>> \in grants
        /\ r.result = Unsupported

\* C8: a forecast retrieval whose list-runs call is answered with zero runs, or
\* whose fetch is answered with zero values, returns the empty list: no error,
\* no NotFound.
C8_NoDataIsEmptyResult ==
    \A r \in Requests :
        (r.op \in PredictedOps /\ r.pc = "done" /\ r.resp = <<>>
            /\ (LastAnswered(r, "get_latest_forecasts")
                   \/ LastAnswered(r, "get_forecast_as_timeseries")))
        => r.result = Ok(<<>>)

\* A site the caller may access, with no runs.
C8_Witness ==
    \E r \in Requests :
        /\ r.op = "get_site_forecast"
        /\ r.had_grant = Some(TRUE)
        /\ LastAnswered(r, "get_latest_forecasts")
        /\ r.resp = <<>>
        /\ r.result = Ok(<<>>)

\* C9: a region-scoped forecast request for a location id that does not exist
\* ends in an error, not in a result list.
C9_UnknownLocationIsError ==
    \A r \in Requests :
        (r.op \in PredictedOps /\ IsNone(r.oauth_id) /\ r.pc = "done"
            /\ r.location \notin StoreLocationIds)
        => r.result.kind # "ok"

\* The first of the runs with the greatest creation timestamp.
FirstLatest(forecasts) ==
    CHOOSE i \in 1..Len(forecasts) :
        /\ \A j \in 1..Len(forecasts) :
              forecasts[j].created_timestamp_utc <= forecasts[i].created_timestamp_utc
        /\ \A j \in 1..(i - 1) :
              forecasts[j].created_timestamp_utc < forecasts[i].created_timestamp_utc

RegionPredictedOps ==
    {"get_predicted_solar_power_production_for_location",
     "get_predicted_wind_power_production_for_location"}

\* The request returned the conversion of an answered timeseries call.
ReturnedValues(r) ==
    /\ r.op \in PredictedOps \cup ActualOps
    /\ r.pc = "done"
    /\ r.result.kind = "ok"
    /\ \/ LastAnswered(r, "get_forecast_as_timeseries")
       \/ LastAnswered(r, "get_observations_as_timeseries")

\* C11: every predicted and actual PowerKW returned is the whole number k of kW
\* with k * 1000 <= effective_capacity_watts * fraction < (k + 1) * 1000, for
\* every value of the response (fractions in thousandths).
C11_PowerTruncatedToWholeKW ==
    \A r \in Requests :
        ReturnedValues(r) =>
            /\ Len(r.result.body) = Len(r.resp)
            /\ \A i \in 1..Len(r.resp) :
                  LET product == r.resp[i].effective_capacity_watts * r.resp[i].fraction_permille
                      k == r.result.body[i].PowerKW
                  IN  k * 1000000 <= product /\ product < (k + 1) * 1000000

\* Capacity 1000 W at fraction 0.5 comes back as 0 kW.
C11_Witness ==
    \E r \in Requests :
        /\ ReturnedValues(r)
        /\ \E i \in 1..Len(r.resp) :
              /\ r.resp[i].effective_capacity_watts = 1000
              /\ r.resp[i].fraction_permille = 500
              /\ r.result.body[i].PowerKW = 0

ReturnedSites(r) ==
    r.op = "get_sites" /\ r.pc = "done" /\ r.answered = 1

LocationOf(site_uuid) ==
    LET i == CHOOSE k \in 1..Len(StoreLocations) : StoreLocations[k].location_uuid = site_uuid
    IN  StoreLocations[i]

\* C14: every Site get_sites returns has orientation 180 when the location has no
\* orientation and tilt 35 when it has no tilt, and has a latitude, a longitude and
\* a capacity_kw.
C14_UnsetOrientationTiltDefaulted ==
    \A r \in Requests :
        (ReturnedSites(r) /\ r.result.kind = "ok") =>
            \A i \in 1..Len(r.result.body) :
                LET site == r.result.body[i]
                    loc == LocationOf(site.site_uuid)
                IN  /\ "orientation" \notin DOMAIN loc.metadata => site.orientation = Some(180)
                    /\ "tilt" \notin DOMAIN loc.metadata => site.tilt = Some(35)
                    /\ site.latitude \in -90..90
                    /\ site.longitude \in -180..180
                    /\ site.capacity_kw >= 0

CalledWithAccess(op) ==
    dbreq.op = op /\ QuartzDB_HasAccess(dbreq.sub, dbreq.site_uuid)

\* C13: a post_site_generation by an identity with access is rejected with
\* CapacityExceeded, status 422 and a detail naming generation values, when some
\* posted PowerKW is above the site's registered capacity_kw, and is accepted,
\* its values stored, when every posted PowerKW is within it.
C13_CapacityBoundOnPost ==
    CalledWithAccess("post_site_generation") =>
        LET capacity_kw == db.sites[dbreq.site_uuid].capacity_kw
            above == { i \in 1..Len(dbreq.generation) : dbreq.generation[i].PowerKW > capacity_kw }
        IN  IF above # {}
            THEN /\ dbreq.result.kind = "CapacityExceeded"
                 /\ dbreq.result.status = 422
                 /\ dbreq.result.detail = "generation values"
            ELSE /\ dbreq.result.kind = "ok"
                 /\ \A i \in 1..Len(dbreq.generation) :
                       <<dbreq.site_uuid, dbreq.generation[i]>> \in db.generation

\* A post of 5 kW then 1000 kW to a site of capacity 10 is rejected.
C13_Witness ==
    /\ CalledWithAccess("post_site_generation")
    /\ db.sites[dbreq.site_uuid].capacity_kw = 10
    /\ Len(dbreq.generation) = 2
    /\ dbreq.generation[1].PowerKW = 5
    /\ dbreq.generation[2].PowerKW = 1000
    /\ dbreq.result.kind = "CapacityExceeded"

\* C16: a put_site by an identity with access succeeds and returns the stored
\* row, in which every field present in the payload has the payload's value and
\* every other field has the value it had before the call; the row keeps its
\* site_uuid, and every row of the store is still filed under its own site_uuid.
C16_PutSiteChangesOnlyGivenFields ==
    /\ DOMAIN db.sites = Sites
    /\ \A site_uuid \in Sites : db.sites[site_uuid].site_uuid = site_uuid
    /\ CalledWithAccess("put_site") =>
          /\ dbreq.result.kind = "ok"
          /\ LET row == ValueOf(dbreq.result.site)
                 prior == ValueOf(dbreq.before)
                 given == { f \in DOMAIN dbreq.site_properties :
                                ~IsNone(dbreq.site_properties[f]) }
             IN  /\ row = db.sites[dbreq.site_uuid]
                 /\ row.site_uuid = dbreq.site_uuid
                 /\ \A f \in given \cap OptionalSiteFields :
                       row[f] = dbreq.site_properties[f]
                 /\ \A f \in given \ OptionalSiteFields :
                       row[f] = ValueOf(dbreq.site_properties[f])
                 /\ \A f \in SiteFields \ given : row[f] = prior[f]

\* A payload holding only a name renames a site whose capacity an earlier
\* put_site had changed: the capacity and the latitude stay.
C16_Witness ==
    /\ CalledWithAccess("put_site")
    /\ dbreq.site_properties = [NoProperties EXCEPT !.client_site_name = Some("test_zzz")]
    /\ ValueOf(dbreq.before).client_site_name = Some("ruvnl_pv_testID1")
    /\ ValueOf(dbreq.before).capacity_kw = 2000
    /\ ValueOf(dbreq.result.site).client_site_name = Some("test_zzz")
    /\ ValueOf(dbreq.result.site).capacity_kw = 2000
    /\ ValueOf(dbreq.result.site).latitude = 26

\* C17: an export whose forecast retrieval returned no values is answered with
\* status 200 and content type text/csv, the body holding the header and no
\* row, whatever the horizon.
C17_EmptyForecastExportsOk ==
    (export.pc = "done" /\ export.forecast = Some(<<>>)) =>
        /\ ValueOf(export.response).status = 200
        /\ ValueOf(export.response).content_type = "text/csv"
        /\ ValueOf(export.response).body.header = CsvHeader
        /\ ValueOf(export.response).body.rows = <<>>

\* A day_ahead export of an empty forecast has been answered with status 200.
C17_Witness ==
    /\ export.pc = "done"
    /\ export.forecast_horizon = "day_ahead"
    /\ export.forecast = Some(<<>>)
    /\ ValueOf(export.response).status = 200

\* C18: every fetch of forecast values carries as its time window the window
\* get_window gave for the request's reference time, whatever the horizon and
\* horizon_minutes; the offset shows only in the pivot of the list-runs call
\* (window start - offset) and in the horizon of the fetch.
C18_WindowIndependentOfOffset ==
    \A r \in Requests :
        \A i \in CallsOf(r, "get_forecast_as_timeseries") :
            /\ r.calls[i].time_window = Some(get_window(ValueOf(r.now)))
            /\ r.calls[i].horizon_mins = r.resolved_minutes
            /\ \A j \in CallsOf(r, "get_latest_forecasts") :
                  r.calls[j].pivot_timestamp_utc =
                      Some(get_window(ValueOf(r.now))[1] - ValueOf(r.resolved_minutes))

\* A fetch with offset 600 carries the whole day of the reference time.
C18_Witness ==
    \E r \in Requests :
        /\ r.pc = "get_forecast_as_timeseries"
        /\ r.forecast_horizon = "horizon"
        /\ r.resolved_minutes = Some(600)
        /\ r.now = Some(3000)
        /\ r.req.time_window = Some(<<2880, 4320>>)

\* The request has one more fetch of forecast values in its calls after the step.
IssuesFetch(before, after) ==
    Cardinality(CallsOf(after, "get_forecast_as_timeseries"))
        > Cardinality(CallsOf(before, "get_forecast_as_timeseries"))

\* C19: a step issues a fetch of forecast values only as the step in which the
\* request's list-runs call returns, and returns at least one run; the fetch
\* names the forecaster of the most recent of the runs returned, and it is the
\* request's only fetch. A list-runs call that returns no run or fails is
\* therefore followed by no fetch.
C19_FetchOnlyAfterRunsReturned ==
    [][ \A s \in Slots :
          IssuesFetch(reqs[s], reqs'[s]) =>
              /\ reqs[s].pc = "get_latest_forecasts"
              /\ reqs[s].calls[Len(reqs[s].calls)].rpc = "get_latest_forecasts"
              /\ reqs[s].answered = Len(reqs[s].calls) - 1
              /\ reqs'[s].answered = reqs[s].answered + 1
              /\ reqs'[s].resp # <<>>
              /\ reqs'[s].calls = Append(reqs[s].calls, reqs'[s].req)
              /\ reqs'[s].req.rpc = "get_forecast_as_timeseries"
              /\ reqs'[s].req.forecaster =
                     Some(reqs'[s].resp[FirstLatest(reqs'[s].resp)].forecaster)
              /\ Cardinality(CallsOf(reqs'[s], "get_forecast_as_timeseries")) = 1
      ]_vars

\* A fetch is out after list-runs returned two runs, the second the more recent:
\* the fetch names the second run's forecaster.
C19_Witness ==
    \E r \in Requests :
        /\ r.pc = "get_forecast_as_timeseries"
        /\ Len(r.calls) = 2
        /\ r.calls[1].rpc = "get_latest_forecasts"
        /\ r.answered = 1
        /\ Len(r.resp) = 2
        /\ r.resp[1].created_timestamp_utc < r.resp[2].created_timestamp_utc
        /\ r.req.forecaster = Some(r.resp[2].forecaster)

RemoteRpcs ==
    {"list_locations", "get_latest_forecasts", "get_forecast_as_timeseries",
     "get_observations_as_timeseries"}

\* C20: a request issues each remote call at most once and has at most its last
\* call unanswered; a request that ended with a call unanswered ended with the
\* upstream failure as its result, and a request whose result is the upstream
\* failure has ended with the failed call as the last call it issued.
C20_NoRetryFailureSurfaced ==
    \A r \in Requests :
        /\ \A rpc \in RemoteRpcs : Cardinality(CallsOf(r, rpc)) <= 1
        /\ \A i \in 1..Len(r.calls) : r.calls[i].rpc \in RemoteRpcs
        /\ r.answered \in {Len(r.calls) - 1, Len(r.calls)} \cap Nat
        /\ (r.pc = "done" /\ r.answered < Len(r.calls)) => r.result = UpstreamFailure
        /\ r.result = UpstreamFailure =>
              /\ r.pc = "done"
              /\ r.answered = Len(r.calls) - 1

\* A site forecast whose fetch of values failed: access check and list-runs were
\* answered, the fetch was the third and last call, the failure is the result.
C20_Witness ==
    \E r \in Requests :
        /\ r.op = "get_site_forecast"
        /\ r.pc = "done"
        /\ r.result = UpstreamFailure
        /\ Len(r.calls) = 3
        /\ r.calls[3].rpc = "get_forecast_as_timeseries"
        /\ r.answered = 2

AloneResult(r) ==
    IF r.op = "get_sites"
    THEN LET locations == ListLocationsResponse(SitesRequest(ValueOf(r.oauth_id)))
         IN  Ok([i \in 1..Len(locations) |-> ToSite(locations[i])])
    ELSE LET access == ListLocationsResponse(
                           AccessRequest(r.location, SOLAR, LocationType_SITE,
                                         ValueOf(r.oauth_id)))
             window == get_window(ValueOf(r.now))
         IN  IF access = <<>> THEN NotFound
             ELSE IF r.op = "get_site_generation"
             THEN Ok(ToActualPower(StoreObservations(
                         ObservationsRequest(r.location, SOLAR, window))))
             ELSE LET runs == StoreRuns(LatestForecastsRequest(r.location, SOLAR, window[1], 0))
                  IN  IF runs = <<>> THEN Ok(<<>>)
                      ELSE Ok(ToPredictedPower(StoreValues(
                                  ForecastTimeseriesRequest(r.location, SOLAR, 0, window,
                                                            SelectForecaster(runs)))))

EmptyEnv(value) == IsNone(value) \/ value = Some("")

\* C23: once the process serves, each provider it has set up is the dummy one
\* exactly when the domain or the audience it was configured with is empty, and
\* the token-validating one otherwise; every call of a dummy provider returns
\* the one fixed subject and email, whatever the credential.
C23_DummyProviderIffAuthUnconfigured ==
    server.pc = "serving" =>
        /\ server.get_auth = "DummyAuth"
              <=> (server.conf_domain = "" \/ server.conf_audience = "")
        /\ server.get_auth \in {"DummyAuth", "Auth0"}
        /\ server.service_auth = "DummyAuth"
              <=> (EmptyEnv(server.env_domain) \/ EmptyEnv(server.env_audience))
        /\ server.service_auth \in {"DummyAuth", "Auth"}
        /\ \A i \in 1..Len(server.calls) :
              server.calls[i].provider = "DummyAuth" =>
                  server.calls[i].payload = DummyAuth_call

====
